---- MODULE Spec2Model ----
(***************************************************************************)
(* Model of src/src/evaluate_topomaps.py: the topographic-map quality      *)
(* pipeline (topomap_rescale, topomap_blur, topomap_mse,                   *)
(* compute_topomap_image_quality).                                         *)
(*                                                                         *)
(* Numbers: pixel cells are 8-bit unsigned integers (numpy uint8, the      *)
(* dtype np.asarray gives for a PIL image); their arithmetic wraps modulo  *)
(* 256.  Means and the area under the curve are float64 in the program and *)
(* exact rationals <<numerator, denominator>> here.                        *)
(***************************************************************************)
EXTENDS Integers, Sequences, FiniteSets, TLC

\* ------------------------------------------------------------------ bounds
\* Most directory entries one call sees.
MaxImages == 2
\* Longest list of levels (params).
MaxLevels == 3
\* Largest width and height of an image given to topomap_rescale alone.
MaxDim == 3
\* Levels given to topomap_rescale alone: -LevelSlack .. 10 + LevelSlack.
LevelSlack == 3

\* --------------------------------------------------------- input domains
\* The pages the pipeline renders: size (width, height) and bands per pixel.
Pages == {[size |-> <<1, 1>>, bands |-> 1]}
\* Channel values an image cell takes (a subset of 0..255).
PixVals == {0, 8, 16}
\* Levels the lists of the pipeline are made of, which are in increasing
\* order: 11 is out of range for topomap_rescale.
LevelSet == {0, 11}
\* Metric names: the two the code knows and one it does not.
Metrics == {"resize_mse", "blur_mse", "ssim"}
\* The directory the images are in, as a path.
ImageDir == <<"t", ".", "d", "/", "i">>
\* Entries a directory may hold, in the order os.listdir gives them when
\* present.
NamePool == << <<"a", ".", "p", "d", "f">>,
               <<"b", ".", "p", "s">>,
               <<"m", "a", "p">> >>

NoValue == "None"
\* What a failed Image.resize raises.
ResizeError == [raises |-> "ValueError: height and width must be > 0"]
Raised(x) == "raises" \in DOMAIN x

\* -------------------------------------------------------------- rationals
RECURSIVE GCD(_, _)
GCD(a, b) == IF b = 0 THEN a ELSE GCD(b, a % b)

Abs(x) == IF x < 0 THEN 0 - x ELSE x

\* n / d in lowest terms, d > 0.
Rat(n, d) ==
    LET g == GCD(Abs(n), d)
    IN  IF n = 0 THEN <<0, 1>> ELSE <<n \div g, d \div g>>

RAdd(x, y) == Rat(x[1] * y[2] + y[1] * x[2], x[2] * y[2])
RDivInt(x, k) == Rat(x[1], x[2] * k)
RMulInt(x, k) == Rat(x[1] * k, x[2])
RZero == <<0, 1>>

RECURSIVE RSum(_)
RSum(s) == IF s = <<>> THEN RZero ELSE RAdd(Head(s), RSum(Tail(s)))

RECURSIVE IntSum(_)
IntSum(s) == IF s = <<>> THEN 0 ELSE Head(s) + IntSum(Tail(s))

\* ----------------------------------------------------------- pixel arrays
\* np.asarray(img): shape (height, width, bands), cells row by row.
NumCells(shape) == shape[1] * shape[2] * shape[3]
ShapeOf(im) == <<im.size[2], im.size[1], im.bands>>
Arrays(shape) ==
    {[shape |-> shape, data |-> d] : d \in [1..NumCells(shape) -> PixVals]}

\* uint8 - uint8 and np.square on uint8: both wrap modulo 256.
U8Sub(a, b) == (a - b) % 256
U8Square(x) == (x * x) % 256

\* np.square(arr_img - arr_img_changed).mean()
SquaredError(a, b) ==
    [k \in 1..Len(a.data) |-> U8Square(U8Sub(a.data[k], b.data[k]))]
MSE(a, b) == Rat(IntSum(SquaredError(a, b)), Len(a.data))

\* ------------------------------------------------------------- operators
\* PIL Image.resize: the size asked for must be at least 1 x 1.
Resize(im, want) ==
    IF want[1] < 1 \/ want[2] < 1 THEN ResizeError
    ELSE [size |-> want, bands |-> im.bands]

\* Mutant of ShrinkTarget: the target counted down from 50.
ShrinkTarget_From50(shrink_size) == 50 - (shrink_size * 5)

ShrinkTarget(shrink_size) == 55 - (shrink_size * 5)
BlurRadius(radius) == (radius * 2) + 2

\* The shape of topomap_rescale's result for an image of the given size,
\* or the resize error.
RescaleShape(im, shrink_size) ==
    LET t == ShrinkTarget(shrink_size)
        res_img == Resize(im, <<t, t>>)
        res_img_big == Resize(res_img, im.size)
    IN  IF Raised(res_img) THEN ResizeError
        ELSE [shape |-> ShapeOf(res_img_big)]

\* What topomap_rescale can return: the resampled cells are the library's.
topomap_rescale(im, shrink_size) ==
    LET s == RescaleShape(im, shrink_size)
    IN  IF Raised(s) THEN {ResizeError} ELSE Arrays(s.shape)

\* What topomap_blur can return: a blurred image of the size of the input.
topomap_blur(im, radius) ==
    LET blur_radius == BlurRadius(radius)
    IN  Arrays(ShapeOf(im))

\* -------------------------------------------------------------- file names
RECURSIVE LastComponent(_)
\* image_path.split("/")[-1]
LastComponent(path) ==
    IF path = <<>> THEN <<>>
    ELSE IF path[Len(path)] = "/" THEN <<>>
    ELSE Append(LastComponent(SubSeq(path, 1, Len(path) - 1)), path[Len(path)])

\* s[:-4]
DropLast4(s) == IF Len(s) <= 4 THEN <<>> ELSE SubSeq(s, 1, Len(s) - 4)

\* os.path.join(image_dir, image_path)
JoinPath(dir, name) == dir \o <<"/">> \o name

\* The file name fig.savefig writes inside output_dir.
DocName(path, m) == DropLast4(LastComponent(path)) \o <<"_", m, ".pdf">>

\* ------------------------------------------------------------ aggregation
\* Mutant of ColumnMean: the mean taken over the levels of a curve (the
\* other axis) instead of over the images.
ColumnMean_OtherAxis(table, k) ==
    RDivInt(RSum([r \in 1..Len(table) |-> table[r][k]]), Len(table[1]))

\* np.mean(group_errors, axis=0)[k]
ColumnMean(table, k) ==
    RDivInt(RSum([r \in 1..Len(table) |-> table[r][k]]), Len(table))

MeanCurve(table) == [k \in 1..Len(table[1]) |-> ColumnMean(table, k)]

\* Mutant of Auc: the left Riemann sum instead of the trapezoidal rule.
Auc_LeftSum(y) == RSum([k \in 1..(Len(y) - 1) |-> y[k]])

\* sklearn.metrics.auc(np.arange(len(y)), y): the trapezoidal rule over
\* unit steps.
Auc(y) == RSum([k \in 1..(Len(y) - 1) |-> RDivInt(RAdd(y[k], y[k + 1]), 2)])

\* ------------------------------------------------------------------ state
VARIABLES
    image_dir,        \* the entries of the directory, in listing order
    metric, params, return_auc, output_dir,   \* the arguments of the call
    pc,               \* where the call is
    image_paths, idx, group_errors, quality_values,
    image_path, img, arr_img, fig, axes, img_manipulation_fn,
    errs, i, arr_img_changed,                 \* the frame of topomap_mse
    open_images, open_figures,                \* resources not yet closed
    docs,             \* files written to output_dir: name -> content
    started,          \* entries topomap_mse was called for, in order
    failure, failed_at,
    rs                \* the frame of a call of topomap_rescale alone

args == <<image_dir, metric, params, return_auc, output_dir>>
frame == <<image_path, img, arr_img, fig, axes, img_manipulation_fn,
           errs, i, arr_img_changed>>
vars == <<image_dir, metric, params, return_auc, output_dir, pc,
          image_paths, idx, group_errors, quality_values,
          image_path, img, arr_img, fig, axes, img_manipulation_fn,
          errs, i, arr_img_changed, open_images, open_figures, docs,
          started, failure, failed_at, rs>>

\* Sequences over S of length at most n.
SeqsUpTo(S, n) == UNION {[1..k -> S] : k \in 0..n}

\* The listings of a directory: entries of NamePool, in pool order.
Listings ==
    {s \in SeqsUpTo(1..Len(NamePool), MaxImages) :
        \A a, b \in 1..Len(s) : a < b => s[a] < s[b]}

\* The lists of levels: nondecreasing, at most MaxLevels long.
LevelLists ==
    {s \in SeqsUpTo(LevelSet, MaxLevels) :
        \A a, b \in 1..Len(s) : a < b => s[a] <= s[b]}

RsIdle == [pc |-> "idle"]

FrameEmpty ==
    /\ image_path = NoValue /\ img = NoValue /\ arr_img = NoValue
    /\ fig = NoValue /\ axes = NoValue /\ img_manipulation_fn = NoValue
    /\ errs = NoValue /\ i = NoValue /\ arr_img_changed = NoValue

PipelineIdle ==
    /\ pc = "call"
    /\ image_paths = NoValue /\ idx = 0
    /\ group_errors = NoValue /\ quality_values = NoValue
    /\ FrameEmpty
    /\ open_images = {} /\ open_figures = {}
    /\ docs = <<>>
    /\ started = <<>>
    /\ failure = NoValue /\ failed_at = NoValue

Init ==
    /\ \E l \in Listings : image_dir = [k \in 1..Len(l) |-> NamePool[l[k]]]
    /\ metric \in Metrics
    /\ params \in LevelLists
    /\ return_auc \in BOOLEAN
    /\ output_dir \in BOOLEAN
    /\ PipelineIdle
    /\ rs = RsIdle

nLevels == Len(params)
nImages == Len(image_paths)

Fail(what, image) ==
    /\ pc' = "failed"
    /\ failure' = what
    /\ failed_at' = [pc |-> pc, idx |-> image]

\* ---------------------------------------------- compute_topomap_image_quality
\* image_paths = os.listdir(image_dir); group_errors = []
ListDir ==
    /\ pc = "call"
    /\ image_paths' = image_dir
    /\ group_errors' = <<>>
    /\ pc' = "for_image"
    /\ UNCHANGED <<args, idx, quality_values, frame, open_images,
                   open_figures, docs, started, failure, failed_at, rs>>

\* -------------------------------------------------------------- topomap_mse
\* The next entry is passed to topomap_mse, which renders its first page.
LoadImage ==
    /\ pc = "for_image" /\ idx < nImages
    /\ idx' = idx + 1
    /\ image_path' = JoinPath(ImageDir, image_paths[idx + 1])
    /\ started' = Append(started, image_paths[idx + 1])
    /\ \E page \in Pages : \E a \in Arrays(ShapeOf(page)) :
          /\ img' = page
          /\ arr_img' = a
    /\ open_images' = open_images \cup {idx + 1}
    /\ pc' = "mse_fig"
    /\ UNCHANGED <<args, image_paths, group_errors, quality_values, fig, axes,
                   img_manipulation_fn, errs, i, arr_img_changed,
                   open_figures, docs, failure, failed_at, rs>>

\* Mutant of LoadImageFails: the failure is caught and the loop goes on
\* with the next entry.
LoadImageFails_Skipped ==
    /\ pc = "for_image" /\ idx < nImages
    /\ idx' = idx + 1
    /\ started' = Append(started, image_paths[idx + 1])
    /\ failure' = "convert_from_path"
    /\ failed_at' = [pc |-> pc, idx |-> idx + 1]
    /\ UNCHANGED <<args, pc, image_paths, group_errors, quality_values,
                   frame, open_images, open_figures, docs, rs>>

\* convert_from_path raises: the entry is missing or is no document.
LoadImageFails ==
    /\ pc = "for_image" /\ idx < nImages
    /\ idx' = idx + 1
    /\ image_path' = JoinPath(ImageDir, image_paths[idx + 1])
    /\ started' = Append(started, image_paths[idx + 1])
    /\ Fail("convert_from_path", idx + 1)
    /\ UNCHANGED <<args, image_paths, group_errors, quality_values, img,
                   arr_img, fig, axes, img_manipulation_fn, errs, i,
                   arr_img_changed, open_images, open_figures, docs, rs>>

Reference == [shows |-> "reference"]
Degraded(param) == [shows |-> "degraded", param |-> param]
EmptyPanel == [shows |-> "nothing"]

\* Mutant of SelectedOperator: an unknown metric falls back to the blur.
SelectedOperator_Default ==
    IF metric = "resize_mse" THEN "topomap_rescale" ELSE "topomap_blur"

SelectedOperator ==
    IF metric = "resize_mse" THEN "topomap_rescale"
    ELSE IF metric = "blur_mse" THEN "topomap_blur"
    ELSE NoValue

\* Lines 59-65: the operator for the metric, and errs = np.zeros(len(params)).
SelectOperator ==
    /\ img_manipulation_fn' = SelectedOperator
    /\ errs' = [k \in 1..nLevels |-> RZero]
    /\ i' = 0

\* output_dir is None: no figure.
NoFigure ==
    /\ pc = "mse_fig" /\ ~output_dir
    /\ SelectOperator
    /\ pc' = "mse_levels"
    /\ UNCHANGED <<args, image_paths, idx, group_errors, quality_values,
                   image_path, img, arr_img, fig, axes, arr_img_changed,
                   open_images, open_figures, docs, started, failure,
                   failed_at, rs>>

\* plt.subplots(1, len(params) + 1) with at least two columns: an array of
\* axes, the first showing the reference.
OpenFigure ==
    /\ pc = "mse_fig" /\ output_dir /\ nLevels + 1 >= 2
    /\ fig' = [of |-> idx]
    /\ open_figures' = open_figures \cup {idx}
    /\ axes' = [k \in 1..(nLevels + 1) |->
                    IF k = 1 THEN Reference ELSE EmptyPanel]
    /\ SelectOperator
    /\ pc' = "mse_levels"
    /\ UNCHANGED <<args, image_paths, idx, group_errors, quality_values,
                   image_path, img, arr_img, arr_img_changed, open_images,
                   docs, started, failure, failed_at, rs>>

\* plt.subplots(1, 1) returns one Axes object, not an array: axes[0] raises.
OpenFigureFails ==
    /\ pc = "mse_fig" /\ output_dir /\ nLevels + 1 = 1
    /\ fig' = [of |-> idx]
    /\ open_figures' = open_figures \cup {idx}
    /\ axes' = EmptyPanel
    /\ Fail("TypeError: 'Axes' object is not subscriptable", idx)
    /\ UNCHANGED <<args, image_paths, idx, group_errors, quality_values,
                   image_path, img, arr_img, img_manipulation_fn, errs, i,
                   arr_img_changed, open_images, docs, started, rs>>

\* What img_manipulation_fn(img, param) can return.
Outcomes(fn, im, param) ==
    IF fn = "topomap_rescale" THEN topomap_rescale(im, param)
    ELSE topomap_blur(im, param)

\* One pass of the loop over params (lines 66-74).
ApplyLevel ==
    /\ pc = "mse_levels" /\ i < nLevels
    /\ img_manipulation_fn # NoValue
    /\ \E changed \in Outcomes(img_manipulation_fn, img, params[i + 1]) :
          /\ ~Raised(changed)
          /\ arr_img_changed' = changed
          /\ errs' = [errs EXCEPT ![i + 1] = MSE(arr_img, changed)]
    /\ axes' = IF output_dir
                 THEN [axes EXCEPT ![i + 2] = Degraded(params[i + 1])]
                 ELSE axes
    /\ i' = i + 1
    /\ UNCHANGED <<args, pc, image_paths, idx, group_errors, quality_values,
                   image_path, img, arr_img, fig, img_manipulation_fn,
                   open_images, open_figures, docs, started, failure,
                   failed_at, rs>>

\* The metric is not known: img_manipulation_fn is None and calling it raises.
ApplyUnsetOperator ==
    /\ pc = "mse_levels" /\ i < nLevels
    /\ img_manipulation_fn = NoValue
    /\ Fail("TypeError: 'NoneType' object is not callable", idx)
    /\ UNCHANGED <<args, image_paths, idx, group_errors, quality_values,
                   frame, open_images, open_figures, docs, started, rs>>

\* topomap_rescale raises on a target size below 1.
ApplyLevelResizeFails ==
    /\ pc = "mse_levels" /\ i < nLevels
    /\ img_manipulation_fn # NoValue
    /\ ResizeError \in Outcomes(img_manipulation_fn, img, params[i + 1])
    /\ Fail(ResizeError.raises, idx)
    /\ UNCHANGED <<args, image_paths, idx, group_errors, quality_values,
                   frame, open_images, open_figures, docs, started, rs>>

\* Lines 76-79: fig.savefig(<output_dir>/<name>) and plt.close(fig).
SaveFigure ==
    /\ pc = "mse_levels" /\ i = nLevels /\ output_dir
    /\ LET name == DocName(image_path, metric)
           page == [panels |-> axes, source |-> image_paths[idx]]
       IN  docs' = [d \in (DOMAIN docs) \cup {name} |->
                        IF d = name THEN page ELSE docs[d]]
    /\ open_figures' = open_figures \ {fig.of}
    /\ pc' = "mse_close"
    /\ UNCHANGED <<args, image_paths, idx, group_errors, quality_values,
                   frame, open_images, started, failure, failed_at, rs>>

NoSave ==
    /\ pc = "mse_levels" /\ i = nLevels /\ ~output_dir
    /\ pc' = "mse_close"
    /\ UNCHANGED <<args, image_paths, idx, group_errors, quality_values,
                   frame, open_images, open_figures, docs, started, failure,
                   failed_at, rs>>

\* Lines 81-82 and 101: img.close(), return errs, group_errors.append(...).
CloseAndReturn ==
    /\ pc = "mse_close"
    /\ open_images' = open_images \ {idx}
    /\ group_errors' = Append(group_errors, errs)
    /\ image_path' = NoValue /\ img' = NoValue /\ arr_img' = NoValue
    /\ fig' = NoValue /\ axes' = NoValue /\ img_manipulation_fn' = NoValue
    /\ errs' = NoValue /\ i' = NoValue /\ arr_img_changed' = NoValue
    /\ pc' = "for_image"
    /\ UNCHANGED <<args, image_paths, idx, quality_values, open_figures,
                   docs, started, failure, failed_at, rs>>

\* ------------------------------------------------------------ after the loop
\* Lines 105-106 over at least one curve.
Average ==
    /\ pc = "for_image" /\ idx = nImages /\ nImages >= 1
    /\ quality_values' = MeanCurve(group_errors)
    /\ pc' = "auc"
    /\ UNCHANGED <<args, image_paths, idx, group_errors, frame, open_images,
                   open_figures, docs, started, failure, failed_at, rs>>

\* Lines 105-106 over no curve: np.mean of an empty array is a nan scalar,
\* and list() of a scalar raises.
AverageFails ==
    /\ pc = "for_image" /\ idx = nImages /\ nImages = 0
    /\ Fail("TypeError: 'numpy.float64' object is not iterable", idx)
    /\ UNCHANGED <<args, image_paths, idx, group_errors, quality_values,
                   frame, open_images, open_figures, docs, started, rs>>

\* return_auc is false: the averaged curve is returned.
ReturnCurve ==
    /\ pc = "auc" /\ ~return_auc
    /\ pc' = "returned"
    /\ UNCHANGED <<args, image_paths, idx, group_errors, quality_values,
                   frame, open_images, open_figures, docs, started, failure,
                   failed_at, rs>>

\* Lines 108-112: the area under the averaged curve is appended.
ReturnWithAuc ==
    /\ pc = "auc" /\ return_auc /\ Len(quality_values) >= 2
    /\ quality_values' = Append(quality_values, Auc(quality_values))
    /\ pc' = "returned"
    /\ UNCHANGED <<args, image_paths, idx, group_errors, frame, open_images,
                   open_figures, docs, started, failure, failed_at, rs>>

\* sklearn's auc raises on fewer than two points.
AucFails ==
    /\ pc = "auc" /\ return_auc /\ Len(quality_values) < 2
    /\ Fail("ValueError: At least 2 points are needed to compute area under curve",
            idx)
    /\ UNCHANGED <<args, image_paths, idx, group_errors, quality_values,
                   frame, open_images, open_figures, docs, started, rs>>

Next ==
    \/ ListDir
    \/ LoadImage
    \/ LoadImageFails
    \/ NoFigure
    \/ OpenFigure
    \/ OpenFigureFails
    \/ ApplyLevel
    \/ ApplyUnsetOperator
    \/ ApplyLevelResizeFails
    \/ SaveFigure
    \/ NoSave
    \/ CloseAndReturn
    \/ Average
    \/ AverageFails
    \/ ReturnCurve
    \/ ReturnWithAuc
    \/ AucFails

Spec == Init /\ [][Next]_vars

\* ------------------------------------------------- topomap_rescale, stepwise
\* A call of topomap_rescale on its own: one step per line of its body.
RescaleImages ==
    {[size |-> <<w, h>>, bands |-> b] : w \in 1..MaxDim, h \in 1..MaxDim,
                                        b \in {1, 3}}
RescaleLevels == (0 - LevelSlack)..(10 + LevelSlack)

RsCall(im, level) ==
    [pc |-> "line20", img |-> im, level |-> level,
     shrink_size |-> level, res_img |-> NoValue, res_img_big |-> NoValue,
     arr_img_rescaled |-> NoValue, raised |-> NoValue, raised_at |-> NoValue]

InitRescale ==
    /\ image_dir = <<>> /\ metric = "resize_mse" /\ params = <<>>
    /\ return_auc = FALSE /\ output_dir = FALSE
    /\ PipelineIdle
    /\ \E im \in RescaleImages, level \in RescaleLevels :
          rs = RsCall(im, level)

pipeline == <<args, pc, image_paths, idx, group_errors, quality_values,
              frame, open_images, open_figures, docs, started, failure,
              failed_at>>

\* shrink_size = 55 - (shrink_size * 5)
RescaleTarget ==
    /\ rs.pc = "line20"
    /\ rs' = [rs EXCEPT !.shrink_size = ShrinkTarget(rs.shrink_size),
                        !.pc = "line21"]
    /\ UNCHANGED pipeline

\* res_img = img.resize((shrink_size, shrink_size))
RescaleDown ==
    /\ rs.pc = "line21"
    /\ LET r == Resize(rs.img, <<rs.shrink_size, rs.shrink_size>>)
       IN  /\ ~Raised(r)
           /\ rs' = [rs EXCEPT !.res_img = r, !.pc = "line22"]
    /\ UNCHANGED pipeline

RescaleDownFails ==
    /\ rs.pc = "line21"
    /\ LET r == Resize(rs.img, <<rs.shrink_size, rs.shrink_size>>)
       IN  /\ Raised(r)
           /\ rs' = [rs EXCEPT !.raised = r.raises, !.raised_at = rs.pc,
                               !.pc = "raised"]
    /\ UNCHANGED pipeline

\* res_img_big = res_img.resize(img.size)
RescaleUp ==
    /\ rs.pc = "line22"
    /\ LET r == Resize(rs.res_img, rs.img.size)
       IN  /\ ~Raised(r)
           /\ rs' = [rs EXCEPT !.res_img_big = r, !.pc = "line23"]
    /\ UNCHANGED pipeline

\* arr_img_rescaled = np.asarray(res_img_big); return arr_img_rescaled
RescaleToArray ==
    /\ rs.pc = "line23"
    /\ rs' = [rs EXCEPT
                !.arr_img_rescaled = [shape |-> ShapeOf(rs.res_img_big)],
                !.pc = "returned"]
    /\ UNCHANGED pipeline

NextRescale ==
    \/ RescaleTarget
    \/ RescaleDown
    \/ RescaleDownFails
    \/ RescaleUp
    \/ RescaleToArray

SpecRescale == InitRescale /\ [][NextRescale]_vars

\* ================================================================== claims
KnownMetrics == {"resize_mse", "blur_mse"}
UnsetOperatorError == "TypeError: 'NoneType' object is not callable"
InTopomapMse == {"mse_fig", "mse_levels", "mse_close"}

\* The sum of the k-th values of the first n curves of a table.
RECURSIVE TotalAt(_, _, _)
TotalAt(table, k, n) ==
    IF n = 0 THEN RZero ELSE RAdd(TotalAt(table, k, n - 1), table[n][k])

\* y is the mean of the curves of table: y[k] * N is the sum of their k-th
\* values.
IsMeanOf(y, table) ==
    \A k \in 1..Len(table[1]) :
        RMulInt(y[k], Len(table)) = TotalAt(table, k, Len(table))

\* a is the trapezoidal integral of y over 0..Len(y)-1: twice a is the two
\* end values plus twice each value in between.
RECURSIVE Interior(_, _)
Interior(y, k) ==
    IF k <= 1 THEN RZero ELSE RAdd(Interior(y, k - 1), y[k])
IsTrapezoidOf(a, y) ==
    RMulInt(a, 2) =
        RAdd(RAdd(y[1], y[Len(y)]), RMulInt(Interior(y, Len(y) - 1), 2))

\* C1: with return_auc false and at least one image, the vector returned has
\* one value per level, and its k-th value is the arithmetic mean over the
\* images of the k-th value of each image's error curve; identical curves
\* give that curve back.
C1_MeanOfCurves ==
    (pc = "returned" /\ ~return_auc) =>
        /\ nImages >= 1
        /\ Len(group_errors) = nImages
        /\ Len(quality_values) = nLevels
        /\ IsMeanOf(quality_values, group_errors)
        /\ (\A r \in 1..nImages : group_errors[r] = group_errors[1])
              => quality_values = group_errors[1]

\* Two images with curves [0, 64] and [64, 64] average to [32, 64].
C1_Witness ==
    /\ pc = "returned" /\ ~return_auc
    /\ group_errors = << << <<0, 1>>, <<64, 1>> >>, << <<64, 1>>, <<64, 1>> >> >>
    /\ quality_values = << <<32, 1>>, <<64, 1>> >>

AllImagesProcessed ==
    /\ pc \in {"returned", "failed"}
    /\ nImages >= 1
    /\ Len(group_errors) = nImages

AucAppended ==
    /\ pc = "returned"
    /\ Len(quality_values) = nLevels + 1
    /\ IsMeanOf(SubSeq(quality_values, 1, nLevels), group_errors)
    /\ IsTrapezoidOf(quality_values[nLevels + 1],
                     SubSeq(quality_values, 1, nLevels))
    /\ (\A k \in 1..nLevels : quality_values[k] = quality_values[1])
          => quality_values[nLevels + 1]
                = RMulInt(quality_values[1], nLevels - 1)

\* C2 as stated: whenever return_auc is set, for every list of levels the
\* call returns len(levels) + 1 values, the averaged curve followed by its
\* trapezoidal integral over the indices 0..len-1.
C2_AucForEveryList ==
    (return_auc /\ AllImagesProcessed) => AucAppended

\* C2 amended: with return_auc set and every image processed, a list of at
\* least two levels gives len(levels) + 1 values, the averaged curve followed
\* by its trapezoidal integral over the indices 0..len-1; a list of fewer
\* than two levels makes the call fail in the integration and return nothing.
C2_AucFromTwoLevels ==
    (return_auc /\ AllImagesProcessed) =>
        /\ nLevels >= 2 => AucAppended
        /\ nLevels < 2 => (pc = "failed" /\ failed_at.pc = "auc")

\* The averaged curve [32, 64, 0] has area 80 = 32/2 + 64 + 0/2.
C2_Witness ==
    /\ pc = "returned" /\ return_auc
    /\ nImages = 2
    /\ quality_values = << <<32, 1>>, <<64, 1>>, <<0, 1>>, <<80, 1>> >>

\* The mean of the true squared differences of two arrays.
TrueSquaredError(a, b) ==
    [k \in 1..Len(a.data) |->
        (a.data[k] - b.data[k]) * (a.data[k] - b.data[k])]
TrueMSE(a, b) == Rat(IntSum(TrueSquaredError(a, b)), Len(a.data))

\* C3: the error value stored for a level is the mean over all cells of the
\* true integer squared difference (reference - degraded)^2.
C3_TrueSquaredDifference ==
    (pc = "mse_levels" /\ i >= 1) =>
        errs[i] = TrueMSE(arr_img, arr_img_changed)

\* C4: every error value is non-negative, and it is 0 exactly when the
\* degraded array is identical to the reference array.
C4_ZeroIffIdentical ==
    (pc = "mse_levels" /\ i >= 1) =>
        /\ errs[i][1] >= 0
        /\ (errs[i] = RZero) <=> (arr_img_changed = arr_img)

\* C5: images are processed strictly one after another, in listing order,
\* and once the processing of an image has failed the call has failed as a
\* whole: it returns nothing and no later entry is loaded.
C5_FailureAbortsTheCall ==
    /\ pc # "call" =>
          /\ Len(started) = idx
          /\ started = SubSeq(image_paths, 1, idx)
          /\ open_images \subseteq {idx}
          /\ pc \in InTopomapMse => Len(group_errors) = idx - 1
          /\ pc \in {"for_image", "auc", "returned"} => Len(group_errors) = idx
    /\ failure # NoValue =>
          /\ pc = "failed"
          /\ Len(started) = failed_at.idx
          /\ Len(group_errors) < nImages => Len(group_errors) = failed_at.idx - 1
    /\ pc = "returned" => (failure = NoValue /\ Len(group_errors) = nImages)

\* The first of two entries failed in the loop over the levels: the second
\* was never loaded.
C5_Witness ==
    /\ pc = "failed" /\ failed_at.pc = "mse_levels"
    /\ nImages = 2 /\ idx = 1
    /\ started = <<image_paths[1]>>

\* C6: however a call of topomap_mse ends, the image it loaded and the
\* figure it opened have been closed.
C6_ResourcesReleased ==
    (pc \in {"for_image", "auc", "returned", "failed"}) =>
        (open_images = {} /\ open_figures = {})

\* C7: with output_dir given, after the call output_dir holds exactly one
\* document per input image, each with len(levels) + 1 panels: the reference
\* first, then one degraded image per level in level order.
C7_OneDocumentPerImage ==
    (pc = "returned" /\ output_dir) =>
        /\ Cardinality(DOMAIN docs) = nImages
        /\ \A d \in DOMAIN docs :
              /\ Len(docs[d].panels) = nLevels + 1
              /\ docs[d].panels[1] = Reference
              /\ \A k \in 1..nLevels :
                    docs[d].panels[k + 1] = Degraded(params[k])

\* C8: for a metric name that is not known (and no output_dir) the operator
\* stays unset and the call fails exactly when the operator is first invoked:
\* with a non-empty list at the first level, before any error value is
\* computed and without returning a curve; with an empty list not at all,
\* topomap_mse returning an empty curve.
C8_UnsetOperatorFailsOnFirstUse ==
    (metric \notin KnownMetrics /\ ~output_dir) =>
        /\ pc = "mse_levels" => img_manipulation_fn = NoValue
        /\ nLevels >= 1 =>
              /\ pc \notin {"mse_close", "auc", "returned"}
              /\ pc \in {"for_image", "failed"} => group_errors = <<>>
              /\ pc = "mse_levels" =>
                    (i = 0 /\ \A k \in 1..nLevels : errs[k] = RZero)
              /\ (failure # NoValue /\ failed_at.pc \in InTopomapMse) =>
                    /\ failure = UnsetOperatorError
                    /\ failed_at = [pc |-> "mse_levels", idx |-> 1]
                    /\ i = 0
                    /\ \A k \in 1..nLevels : errs[k] = RZero
        /\ nLevels = 0 =>
              /\ pc \in {"for_image", "auc", "returned"} =>
                    \A r \in 1..Len(group_errors) : group_errors[r] = <<>>
              /\ failure # NoValue =>
                    (failure # UnsetOperatorError
                        /\ failed_at.pc \notin InTopomapMse)

\* An unknown metric with two levels: the call failed at the first level of
\* the first image.
C8_Witness ==
    /\ metric \notin KnownMetrics /\ ~output_dir
    /\ nLevels = 2
    /\ pc = "failed" /\ failure = UnsetOperatorError
    /\ i = 0

\* C9: topomap_rescale resizes to the square of side 55 - 5 * level and back:
\* for a level of at most 10 the side is positive and the array returned has
\* the shape of the input image; for a level of 11 or more the side is at
\* most 0 and the first resize raises, nothing having checked the level
\* before.
C9_RescaleShapeOrResizeError ==
    /\ rs.pc \in {"line21", "line22", "line23", "returned", "raised"} =>
          rs.shrink_size = 55 - 5 * rs.level
    /\ rs.pc \in {"line22", "line23"} => rs.level <= 10
    /\ rs.pc = "returned" =>
          /\ rs.level <= 10 /\ rs.shrink_size > 0
          /\ rs.arr_img_rescaled.shape
                = <<rs.img.size[2], rs.img.size[1], rs.img.bands>>
    /\ rs.pc = "raised" =>
          /\ rs.level >= 11 /\ rs.shrink_size <= 0
          /\ rs.raised = ResizeError.raises
          /\ rs.raised_at = "line21"

\* Level 11, the first out of range, on a 2 x 3 image of three bands.
C9_Witness ==
    /\ rs.pc = "raised" /\ rs.level = 11 /\ rs.shrink_size = 0
    /\ rs.img = [size |-> <<2, 3>>, bands |-> 3]

\* A file name without its extension: without everything from its last dot
\* on, and whole when it has no dot.
RECURSIVE StripExtension(_)
StripExtension(name) ==
    IF "." \notin {name[k] : k \in 1..Len(name)} THEN name
    ELSE IF name[Len(name)] = "." THEN SubSeq(name, 1, Len(name) - 1)
    ELSE StripExtension(SubSeq(name, 1, Len(name) - 1))

\* C10: the document written for an input file is named
\* <file name without its extension>_<metric>.pdf, whatever the length of
\* the extension and also when there is none.
C10_NameWithoutExtension ==
    \A d \in DOMAIN docs :
        d = StripExtension(docs[d].source) \o <<"_", metric, ".pdf">>

====
